---- MODULE Spec2Model ----
(***************************************************************************)
(* Model of the property-scoring layer of ChemFlow, src/src/utils/scores.py *)
(*                                                                         *)
(* The state machine is a set of oracle invocations (Calls) that run        *)
(* concurrently against one filesystem scratch root.  A call is either     *)
(* smiles2uplogp (a pure function, one step) or smiles2affinity, which is   *)
(* followed statement by statement: mkdir, the structure-generation loop,  *)
(* the docking subprocess, the parsing loop, and the rmtree of the finally *)
(* clause.  Every access to the filesystem is one step, so that calls      *)
(* interleave at the granularity of the system calls the code makes.       *)
(*                                                                         *)
(* Numbers that are floats in the program (scores, logP, SA) take integer  *)
(* values here.                                                            *)
(***************************************************************************)
EXTENDS Integers, Sequences, FiniteSets, TLC

(***************************************************************************)
(* Bounds of the model.                                                    *)
(***************************************************************************)
\* number of oracle invocations made against the scratch root
NCalls == 2
\* longest batch of molecule strings passed to an oracle
MaxN == 2
\* width of the random tag; the program draws random.getrandbits(32)
TagBits == 1

(***************************************************************************)
(* Program constants.                                                      *)
(***************************************************************************)
TIMEOUT == 30

Calls == 1..NCalls
Tags == 0..((2 ^ TagBits) - 1)

(***************************************************************************)
(* Molecule strings.  Chem.MolFromSmiles, MolLogP, the SA oracle and the    *)
(* ring perception are external libraries; they are modelled by a table    *)
(* over a catalogue of strings: what MolFromSmiles returns (None or a      *)
(* molecule), and for a molecule its logP, its SA score and the sizes of    *)
(* its rings, mol.GetRingInfo().AtomRings().                               *)
(***************************************************************************)
None == [valid |-> FALSE, logp |-> 0, sa |-> 0, rings |-> <<>>]

MolTable ==
  [s \in {"not a molecule", "CCCCCC", "C1CCCCCC1", "C1CCCCCC1C1CCCCCC1", "C1CCCCC1C1CCCCCCC1"} |->
     CASE s = "not a molecule" -> None
       [] s = "CCCCCC" -> [valid |-> TRUE, logp |-> 3, sa |-> 2, rings |-> <<>>]
       [] s = "C1CCCCCC1" -> [valid |-> TRUE, logp |-> 3, sa |-> 1, rings |-> <<7>>]
       [] s = "C1CCCCCC1C1CCCCCC1" -> [valid |-> TRUE, logp |-> 5, sa |-> 1, rings |-> <<7, 7>>]
       [] s = "C1CCCCC1C1CCCCCCC1" -> [valid |-> TRUE, logp |-> 5, sa |-> 2, rings |-> <<6, 8>>]]

Smiles == DOMAIN MolTable

MolFromSmiles(s) == MolTable[s]

mol2logp(mol) == mol.logp

smiles2sa(s) == MolTable[s].sa

\* the loop "for ring in AtomRings(): if len(ring) > 6: plogp1 -= 1"
RECURSIVE RingLoop(_, _, _)
RingLoop(rings, k, plogp1) ==
  IF k > Len(rings) THEN plogp1
  ELSE RingLoop(rings, k + 1, IF rings[k] > 6 THEN plogp1 - 1 ELSE plogp1)

\* max(len(j) for j in cycle_list), 0 when there is no ring
RECURSIVE MaxLen(_, _, _)
MaxLen(rings, k, m) ==
  IF k > Len(rings) THEN m
  ELSE MaxLen(rings, k + 1, IF rings[k] > m THEN rings[k] ELSE m)

Max(a, b) == IF a >= b THEN a ELSE b

\* method2 of _smiles2uplogp: computed by the code, not returned
plogp2(mol, plogp) ==
  LET cycle_length == IF Len(mol.rings) > 0 THEN MaxLen(mol.rings, 1, 0) ELSE 0
  IN  plogp - Max(cycle_length - 6, 0)

INVALID == -100

\* fault variant: method2, the max-ring-length convention, is returned
_smiles2uplogpMethod2(s) ==
  LET mol == MolFromSmiles(s)
  IN  IF ~mol.valid THEN INVALID
      ELSE plogp2(mol, mol2logp(mol) - smiles2sa(s))

\* fault variant: the "if mol is None" test is missing
_smiles2uplogpNoCheck(s) ==
  LET mol == MolFromSmiles(s)
      plogp == mol2logp(mol) - smiles2sa(s)
  IN  RingLoop(mol.rings, 1, plogp)

_smiles2uplogp(s) ==
  LET mol == MolFromSmiles(s)
  IN  IF ~mol.valid THEN INVALID
      ELSE LET plogp == mol2logp(mol) - smiles2sa(s)
           IN  RingLoop(mol.rings, 1, plogp)

(***************************************************************************)
(* Oracle inputs and outputs.  An input is a str or a list of str; after    *)
(* "if single_smiles: smiles = [smiles]" both are a list, and the flag      *)
(* remembers which it was.  Lists are indexed from 0 as in the program.    *)
(***************************************************************************)
ListsOver(S) == UNION {[0..(n - 1) -> S] : n \in 0..MaxN}

InputsOver(S) ==
  {[single |-> TRUE, list |-> l] : l \in [0..0 -> S]}
    \cup {[single |-> FALSE, list |-> l] : l \in ListsOver(S)}

len(l) == Cardinality(DOMAIN l)

Scalar(x) == [shape |-> "scalar", vals |-> [k \in 0..0 |-> x]]
List(l) == [shape |-> "list", vals |-> l]
NoValue == [shape |-> "none", vals |-> [k \in {} |-> 0]]

smiles2uplogp(smiles) ==
  IF smiles.single THEN Scalar(_smiles2uplogp(smiles.list[0]))
  ELSE List([k \in DOMAIN smiles.list |-> _smiles2uplogp(smiles.list[k])])

(***************************************************************************)
(* Docking logs.  A log file is a sequence of lines, a line a sequence of   *)
(* chunks separated by single blanks.  A chunk is a run of text: all       *)
(* chunks but one hold no whitespace; the zero-pose sentinel is the text   *)
(* the code searches for, blanks included.  The substring tests and        *)
(* str.split() and float() are tables over the chunk vocabulary.           *)
(***************************************************************************)
ZeroPose == "0.000   0.000   0.000  0.00  0.00"
Marker == "RANKING"

\* needle in chunk, for the two needles the code searches for
Contains(chunk, needle) ==
  \/ chunk = needle
  \/ needle = Marker /\ chunk \in {"RANKING:", "#RANKING"}

\* chunk.split(): the whitespace-delimited fields of a chunk
SplitChunk(chunk) ==
  IF chunk = ZeroPose THEN <<"0.000", "0.000", "0.000", "0.00", "0.00">>
  ELSE <<chunk>>

\* line.split()
RECURSIVE split(_)
split(line) ==
  IF line = <<>> THEN <<>> ELSE SplitChunk(Head(line)) \o split(Tail(line))

\* needle in line
InLine(needle, line) == \E k \in 1..Len(line) : Contains(line[k], needle)

\* needle in lines, the whole text of the file (a needle holds no newline)
InText(needle, lines) == \E k \in 1..Len(lines) : InLine(needle, lines[k])

\* float(): the strings float() accepts, with their values
FloatTable ==
  [f \in {"-7.0", "-3.0", "1", "2", "3", "5", "0.000", "0.00"} |->
     CASE f = "-7.0" -> -7
       [] f = "-3.0" -> -3
       [] f = "1" -> 1
       [] f = "2" -> 2
       [] f = "3" -> 3
       [] f = "5" -> 5
       [] OTHER -> 0]

Ok(x) == [kind |-> "ok", val |-> x]
Raise(e) == [kind |-> e, val |-> 0]

float(f) == IF f \in DOMAIN FloatTable THEN Ok(FloatTable[f]) ELSE Raise("ValueError")

\* line.split()[3]
Field3(line) ==
  LET fields == split(line)
  IN  IF Len(fields) < 4 THEN Raise("IndexError") ELSE Ok(fields[4])

\* fault variant: the loop without its break, the last ranking line wins
RECURSIVE ScanLinesNoBreak(_, _, _)
ScanLinesNoBreak(lines, k, r) ==
  IF k > Len(lines) THEN Ok(r)
  ELSE IF InLine(Marker, lines[k])
       THEN LET fld == Field3(lines[k])
                v == float(fld.val)
            IN  IF fld.kind # "ok" THEN fld
                ELSE IF v.kind # "ok" THEN v
                ELSE ScanLinesNoBreak(lines, k + 1, v.val)
       ELSE ScanLinesNoBreak(lines, k + 1, r)

\* the loop over lines.splitlines(): the value left in results[i], or the
\* exception that leaves the loop
RECURSIVE ScanLines(_, _, _)
ScanLines(lines, k, r) ==
  IF k > Len(lines) THEN Ok(r)
  ELSE IF InLine(Marker, lines[k])
       THEN LET fld == Field3(lines[k])
            IN  IF fld.kind # "ok" THEN fld ELSE float(fld.val)
       ELSE ScanLines(lines, k + 1, r)

\* the body of "with open(...)" for one index, r the value results[i] holds
ParseLog(lines, r) ==
  IF InText(ZeroPose, lines) THEN Ok(r) ELSE ScanLines(lines, 1, r)

(***************************************************************************)
(* The lines and the log files the docking engine may leave behind.        *)
(***************************************************************************)
LineHeader == <<"Rank", "Energy">>
LineBest == <<"1", "1", "3", "-7.0", "0.00", "RANKING">>
LineNext == <<"2", "1", "5", "-3.0", "0.00", "#RANKING">>
LineZero == <<"1", "1", "1", ZeroPose, "RANKING">>
LineShort == <<"1", "RANKING:">>
LineText == <<"RANKING", "of", "poses", "n/a">>

LogSamples ==
  << <<LineHeader, LineBest, LineNext>>,
     <<LineHeader, LineShort, LineBest>>,
     <<LineNext, LineBest>>,
     <<LineHeader>>,
     <<LineBest, LineZero>>,
     <<LineText>> >>

AllLogs == 1..Len(LogSamples)

\* for the runs of concurrent calls: a log that parses and one that does not
SomeLogs == 1..2

(***************************************************************************)
(* The filesystem under the scratch root.  A directory is named by its     *)
(* path; a file by its index and extension.  A file records which call's   *)
(* subprocess wrote it (by) and, for a log, which of LogSamples it holds.  *)
(***************************************************************************)
\* fault variant: the tag is left out of the directory name
OutputPathShared(r) == <<"/tmp", "chemflow_", 0>>

\* Path(output_path) / f"chemflow_{_run}"
OutputPath(r) == <<"/tmp", "chemflow_", r>>

Paths == {OutputPath(r) : r \in Tags}

Name(k, e) == [idx |-> k, ext |-> e]
File(k, e, c, l) == [idx |-> k, ext |-> e, by |-> c, log |-> l]
NameOf(f) == Name(f.idx, f.ext)

\* the molecule strings handed to the affinity pipeline: each is passed to
\* obabel, whose outcome is open whatever the string, so one string stands
\* for all
DockSmiles == {"CCCCCC"}

VARIABLES
  pc,        \* where each call stands
  fn,        \* the oracle each call invokes
  smiles,    \* its input, after "smiles = [smiles]"
  run,       \* _run, the random tag
  i,         \* the loop index
  results,   \* results, np.zeros(n) and then the parsed scores
  seen,      \* per index, the log file that open() returned, if any
  exc,       \* the exception that is propagating, "none" if none
  ret,       \* the value returned
  timeout,   \* the timeout= argument of the docking subprocess.run
  timedOut,  \* whether subprocess.run raised TimeoutExpired
  wrote,     \* the indices whose log this call's docking engine wrote
  scan,      \* the directory entries rmtree has listed
  unlinked,  \* whose files the rmtree of this call has removed
  exists,    \* the scratch directories that exist
  files,     \* the files of each scratch directory
  stages,    \* per call, the stages it has run so far, in order
  pure       \* the call of a pure utility (normalize, molssim), if made

vars == <<pc, fn, smiles, run, i, results, seen, exc, ret, timeout, timedOut,
          wrote, scan, unlinked, exists, files, stages, pure>>

NoList == [k \in {} |-> 0]
NoCall == [fn |-> "none"]
Stage(op, k) == [op |-> op, idx |-> k]
NoFile == File(0, "none", 0, 0)

Init ==
  /\ pc = [c \in Calls |-> "idle"]
  /\ fn = [c \in Calls |-> "none"]
  /\ smiles = [c \in Calls |-> [single |-> FALSE, list |-> NoList]]
  /\ run = [c \in Calls |-> -1]        \* not drawn yet
  /\ i = [c \in Calls |-> 0]
  /\ results = [c \in Calls |-> NoList]
  /\ seen = [c \in Calls |-> NoList]
  /\ exc = [c \in Calls |-> "none"]
  /\ ret = [c \in Calls |-> NoValue]
  /\ timeout = [c \in Calls |-> -1]    \* no subprocess run yet
  /\ timedOut = [c \in Calls |-> FALSE]
  /\ wrote = [c \in Calls |-> {}]
  /\ scan = [c \in Calls |-> {}]
  /\ unlinked = [c \in Calls |-> {}]
  /\ exists = {}
  /\ files = [p \in Paths |-> {}]
  /\ stages = [c \in Calls |-> <<>>]
  /\ pure = NoCall

n(c) == len(smiles[c].list)
output_path(c) == OutputPath(run[c])

\* calls are numbered in the order in which they are made; each call number
\* is one invocation
MayCall(c) == pc[c] = "idle" /\ \A d \in Calls : d < c => pc[d] # "idle"

\* the entry of directory p under the name nm, NoFile when there is none
Lookup(p, nm) ==
  IF p \in exists /\ \E f \in files[p] : NameOf(f) = nm
  THEN CHOOSE f \in files[p] : NameOf(f) = nm
  ELSE NoFile

\* directory p after the files fs were written (created or replaced)
Written(p, fs) ==
  {f \in files[p] : \A g \in fs : NameOf(g) # NameOf(f)} \cup fs

(***************************************************************************)
(* smiles2uplogp(smiles): one step                                         *)
(***************************************************************************)
CallUplogp(c) ==
  /\ MayCall(c)
  /\ \E s \in InputsOver(Smiles) :
       /\ smiles' = [smiles EXCEPT ![c] = s]
       /\ ret' = [ret EXCEPT ![c] = smiles2uplogp(s)]
  /\ fn' = [fn EXCEPT ![c] = "uplogp"]
  /\ pc' = [pc EXCEPT ![c] = "done"]
  /\ UNCHANGED <<run, i, results, seen, exc, timeout, timedOut, wrote, scan,
                 unlinked, exists, files>>
  /\ UNCHANGED <<stages, pure>>

(***************************************************************************)
(* smiles2affinity(smiles, ...)                                            *)
(***************************************************************************)
\* _run = random.getrandbits(..); output_path.mkdir(parents=True, exist_ok=True)
CallAffinity(c) ==
  /\ MayCall(c)
  /\ \E s \in InputsOver(DockSmiles), r \in Tags :
       /\ smiles' = [smiles EXCEPT ![c] = s]
       /\ run' = [run EXCEPT ![c] = r]
       /\ exists' = exists \cup {OutputPath(r)}
  /\ fn' = [fn EXCEPT ![c] = "affinity"]
  /\ i' = [i EXCEPT ![c] = 0]
  /\ pc' = [pc EXCEPT ![c] = "gen"]
  /\ UNCHANGED <<results, seen, exc, ret, timeout, timedOut, wrote, scan,
                 unlinked, files>>
  /\ UNCHANGED <<stages, pure>>

\* one turn of "for i, s in enumerate(smiles)": obabel writes {i}.pdbqt, or
\* fails and writes nothing; it cannot write into a directory that is gone
Gen(c) ==
  /\ pc[c] = "gen"
  /\ i[c] < n(c)
  /\ \E ok \in BOOLEAN :
       files' = IF ok /\ output_path(c) \in exists
                THEN [files EXCEPT ![output_path(c)] =
                        Written(output_path(c), {File(i[c], "pdbqt", c, 0)})]
                ELSE files
  /\ i' = [i EXCEPT ![c] = i[c] + 1]
  /\ UNCHANGED <<pc, fn, smiles, run, results, seen, exc, ret, timeout,
                 timedOut, wrote, scan, unlinked, exists>>
  /\ stages' = [stages EXCEPT ![c] = Append(stages[c], Stage("gen", i[c]))]
  /\ UNCHANGED pure

\* fault variant: the batch timeout is not scaled
TimeoutFlat(single, k) == TIMEOUT

\* timeout=TIMEOUT for a str, timeout=TIMEOUT * n for a list
Timeout(single, k) == IF single THEN TIMEOUT ELSE TIMEOUT * k

\* the ligand files the engine is given: -L {output_path}/0.pdbqt for a str,
\* -B {output_path}/*.pdbqt, expanded by the shell, for a list
Ligands(c) ==
  LET present == IF output_path(c) \in exists
                 THEN {f.idx : f \in {g \in files[output_path(c)] : g.ext = "pdbqt"}}
                 ELSE {}
  IN  IF smiles[c].single THEN present \cap {0} ELSE present

\* fault variant: the engine is started without waiting for the generation
\* loop to run out
DockEarly(c, logs) ==
  /\ pc[c] = "gen"
  /\ \E out \in [Ligands(c) -> {0} \cup logs], expired \in BOOLEAN :
       LET done == {k \in Ligands(c) : out[k] # 0}
       IN  /\ files' = IF done = {} THEN files
                       ELSE [files EXCEPT ![output_path(c)] =
                               Written(output_path(c),
                                       {File(k, "dlg", c, out[k]) : k \in done})]
           /\ wrote' = [wrote EXCEPT ![c] = done]
           /\ timedOut' = [timedOut EXCEPT ![c] = expired]
  /\ timeout' = [timeout EXCEPT ![c] = Timeout(smiles[c].single, n(c))]
  /\ results' = [results EXCEPT ![c] = [k \in 0..(n(c) - 1) |-> 0]]
  /\ i' = [i EXCEPT ![c] = 0]
  /\ pc' = [pc EXCEPT ![c] = "parse"]
  /\ UNCHANGED <<fn, smiles, run, seen, exc, ret, scan, unlinked, exists>>
  /\ stages' = [stages EXCEPT ![c] = Append(stages[c], Stage("dock", 0))]
  /\ UNCHANGED pure

\* the docking subprocess.run under contextlib.suppress(TimeoutExpired), then
\* results = np.zeros(n).  For each ligand the engine leaves a log {k}.dlg or
\* none, and it ends by itself or is cut off by the timeout.  subprocess.run
\* returns when the child has ended or has been killed and waited for, so the
\* engine writes nothing after this step; a log of a killed engine may be
\* cut short, which LogSamples covers by its short lines.
Dock(c, logs) ==
  /\ pc[c] = "gen"
  /\ i[c] = n(c)
  /\ \E out \in [Ligands(c) -> {0} \cup logs], expired \in BOOLEAN :
       LET done == {k \in Ligands(c) : out[k] # 0}
       IN  /\ files' = IF done = {} THEN files
                       ELSE [files EXCEPT ![output_path(c)] =
                               Written(output_path(c),
                                       {File(k, "dlg", c, out[k]) : k \in done})]
           /\ wrote' = [wrote EXCEPT ![c] = done]
           /\ timedOut' = [timedOut EXCEPT ![c] = expired]
  /\ timeout' = [timeout EXCEPT ![c] = Timeout(smiles[c].single, n(c))]
  /\ results' = [results EXCEPT ![c] = [k \in 0..(n(c) - 1) |-> 0]]
  /\ i' = [i EXCEPT ![c] = 0]
  /\ pc' = [pc EXCEPT ![c] = "parse"]
  /\ UNCHANGED <<fn, smiles, run, seen, exc, ret, scan, unlinked, exists>>
  /\ stages' = [stages EXCEPT ![c] = Append(stages[c], Stage("dock", 0))]
  /\ UNCHANGED pure

\* one turn of "for i in range(n)": FileNotFoundError is suppressed, any other
\* exception leaves __smiles2affinity for the finally clause
Parse(c) ==
  /\ pc[c] = "parse"
  /\ i[c] < n(c)
  /\ LET f == Lookup(output_path(c), Name(i[c], "dlg"))
         r == IF f = NoFile THEN Ok(results[c][i[c]])
              ELSE ParseLog(LogSamples[f.log], results[c][i[c]])
     IN  /\ seen' = [seen EXCEPT ![c] = [k \in 0..i[c] |-> IF k = i[c] THEN f ELSE seen[c][k]]]
         /\ IF r.kind = "ok"
            THEN /\ results' = [results EXCEPT ![c][i[c]] = r.val]
                 /\ i' = [i EXCEPT ![c] = i[c] + 1]
                 /\ UNCHANGED <<pc, exc>>
            ELSE /\ exc' = [exc EXCEPT ![c] = r.kind]
                 /\ pc' = [pc EXCEPT ![c] = "rmtree"]
                 /\ UNCHANGED <<results, i>>
  /\ UNCHANGED <<fn, smiles, run, ret, timeout, timedOut, wrote, scan,
                 unlinked, exists, files>>
  /\ stages' = [stages EXCEPT ![c] = Append(stages[c], Stage("parse", i[c]))]
  /\ UNCHANGED pure

\* fault variant: the list is returned whatever the input was
ReturnAlwaysList(c) ==
  /\ pc[c] = "parse"
  /\ i[c] = n(c)
  /\ ret' = [ret EXCEPT ![c] = List(results[c])]
  /\ pc' = [pc EXCEPT ![c] = "rmtree"]
  /\ UNCHANGED <<fn, smiles, run, i, results, seen, exc, timeout, timedOut,
                 wrote, scan, unlinked, exists, files>>
  /\ stages' = [stages EXCEPT ![c] = Append(stages[c], Stage("return", 0))]
  /\ UNCHANGED pure

\* return results[0] if single_smiles else results.tolist()
Return(c) ==
  /\ pc[c] = "parse"
  /\ i[c] = n(c)
  /\ ret' = [ret EXCEPT ![c] = IF smiles[c].single THEN Scalar(results[c][0])
                               ELSE List(results[c])]
  /\ pc' = [pc EXCEPT ![c] = "rmtree"]
  /\ UNCHANGED <<fn, smiles, run, i, results, seen, exc, timeout, timedOut,
                 wrote, scan, unlinked, exists, files>>
  /\ stages' = [stages EXCEPT ![c] = Append(stages[c], Stage("return", 0))]
  /\ UNCHANGED pure

\* finally: shutil.rmtree(output_path, ignore_errors=True), first half: list
\* the entries of the directory; a directory that is gone is an ignored error
RmtreeScan(c) ==
  /\ pc[c] = "rmtree"
  /\ IF output_path(c) \in exists
     THEN /\ scan' = [scan EXCEPT ![c] = {NameOf(f) : f \in files[output_path(c)]}]
          /\ pc' = [pc EXCEPT ![c] = "rmdir"]
     ELSE /\ pc' = [pc EXCEPT ![c] = "done"]
          /\ UNCHANGED scan
  /\ UNCHANGED <<fn, smiles, run, i, results, seen, exc, ret, timeout, timedOut,
                 wrote, unlinked, exists, files>>
  /\ stages' = [stages EXCEPT ![c] = Append(stages[c], Stage("rmtree", 0))]
  /\ UNCHANGED pure

\* second half: unlink the listed entries, then rmdir; rmdir of a directory
\* that holds an entry created since the listing fails, and the error is
\* ignored
RmtreeRemove(c) ==
  /\ pc[c] = "rmdir"
  /\ LET p == output_path(c)
         left == {f \in files[p] : NameOf(f) \notin scan[c]}
     IN  IF p \in exists
         THEN /\ files' = [files EXCEPT ![p] = left]
              /\ exists' = IF left = {} THEN exists \ {p} ELSE exists
              /\ unlinked' = [unlinked EXCEPT ![c] = {f.by : f \in files[p] \ left}]
         ELSE UNCHANGED <<exists, files, unlinked>>
  /\ scan' = [scan EXCEPT ![c] = {}]
  /\ pc' = [pc EXCEPT ![c] = "done"]
  /\ UNCHANGED <<fn, smiles, run, i, results, seen, exc, ret, timeout, timedOut,
                 wrote>>
  /\ UNCHANGED <<stages, pure>>

(***************************************************************************)
(* Spec: the affinity pipeline called concurrently by NCalls callers.      *)
(***************************************************************************)
Next ==
  \E c \in Calls :
    \/ CallAffinity(c)
    \/ Gen(c)
    \/ Dock(c, SomeLogs)
    \/ Parse(c)
    \/ Return(c)
    \/ RmtreeScan(c)
    \/ RmtreeRemove(c)

Spec == Init /\ [][Next]_vars

(***************************************************************************)
(* SpecOne: one call of either oracle, over every input and every log.     *)
(***************************************************************************)
NextOne ==
  \/ CallUplogp(1)
  \/ CallAffinity(1)
  \/ Gen(1)
  \/ Dock(1, AllLogs)
  \/ Parse(1)
  \/ Return(1)
  \/ RmtreeScan(1)
  \/ RmtreeRemove(1)

SpecOne == Init /\ [][NextOne]_vars

(***************************************************************************)
(* Vocabulary of the properties                                            *)
(***************************************************************************)
Affinity(c) == fn[c] = "affinity"
Ended(c) == pc[c] = "done"
InFlight(c) == pc[c] \in {"gen", "parse", "rmtree", "rmdir"}
Started(c) == Affinity(c) /\ pc[c] # "idle"
Returned(c) == Ended(c) /\ exc[c] = "none"

\* the random tags of the calls made so far are pairwise distinct
DistinctTags ==
  \A c, d \in Calls : (c # d /\ Started(c) /\ Started(d)) => run[c] # run[d]

(***************************************************************************)
(* C1: the step that ends a smiles2affinity call (normal return or an      *)
(* exception, after the finally clause) leaves the scratch directory of    *)
(* that call non-existent.                                                 *)
(***************************************************************************)
C1_ScratchRemovedAtExit ==
  [][\A c \in Calls :
       (Affinity(c) /\ ~Ended(c) /\ Ended(c)') => output_path(c) \notin exists']_vars

(***************************************************************************)
(* C2: two smiles2affinity invocations that are in flight together never   *)
(* use the same scratch directory path.                                    *)
(***************************************************************************)
C2_ScratchUniqueInFlight ==
  \A c, d \in Calls :
    (c # d /\ InFlight(c) /\ InFlight(d)) => output_path(c) # output_path(d)

(***************************************************************************)
(* C3: when the random tags are pairwise distinct, every file in a call's  *)
(* scratch directory was written by that call's own subprocesses, every    *)
(* log a call has opened is its own, the cleanup of a call has removed     *)
(* only its own files, the calls use as many scratch paths as there are    *)
(* calls, and the scratch directory of a call that has ended is gone.      *)
(***************************************************************************)
C3_DistinctTagsIsolate ==
  DistinctTags =>
    /\ \A c \in Calls : Started(c) =>
         /\ output_path(c) \in exists =>
              \A f \in files[output_path(c)] : f.by = c
         /\ \A k \in DOMAIN seen[c] : seen[c][k] # NoFile => seen[c][k].by = c
         /\ unlinked[c] \subseteq {c}
         /\ Ended(c) => output_path(c) \notin exists
         /\ InFlight(c) /\ pc[c] # "rmdir" => output_path(c) \in exists
    /\ Cardinality({output_path(c) : c \in {d \in Calls : Started(d)}})
         = Cardinality({d \in Calls : Started(d)})

\* two calls in flight together under distinct tags: one is in the middle of
\* its cleanup while the other has just opened a log of its own
C3_Witness ==
  /\ DistinctTags
  /\ \E c, d \in Calls :
       /\ c # d
       /\ pc[c] = "rmdir" /\ scan[c] # {}
       /\ pc[d] = "parse" /\ i[d] = 1 /\ seen[d][0].by = d

(***************************************************************************)
(* The parsing rule, stated on the text of a log                           *)
(***************************************************************************)
MarkerLines(lines) == {k \in 1..Len(lines) : InLine(Marker, lines[k])}

FirstMarker(lines) ==
  CHOOSE k \in MarkerLines(lines) : \A j \in MarkerLines(lines) : k <= j

HasZeroPose(lines) ==
  \E k \in 1..Len(lines) : \E j \in 1..Len(lines[k]) : lines[k][j] = ZeroPose

\* the first line with the marker has fewer than four fields, or a fourth
\* field that is not a number
Unparseable(lines) ==
  /\ MarkerLines(lines) # {}
  /\ LET fields == split(lines[FirstMarker(lines)])
     IN  Len(fields) < 4 \/ fields[4] \notin DOMAIN FloatTable

LogRule(lines) ==
  IF HasZeroPose(lines) THEN Ok(0)
  ELSE IF MarkerLines(lines) = {} THEN Ok(0)
  ELSE IF Unparseable(lines) THEN Raise("unparseable")
  ELSE Ok(FloatTable[split(lines[FirstMarker(lines)])[4]])

\* the text of the log that call c opened for index k
SeenLog(c, k) == LogSamples[seen[c][k].log]

(***************************************************************************)
(* C4: at the end of a smiles2affinity call, every index for which this    *)
(* call's docking engine wrote no log has result 0, and the call has       *)
(* raised no exception.                                                    *)
(***************************************************************************)
C4_MissingLogIsZero ==
  \A c \in Calls : (Affinity(c) /\ Ended(c)) =>
    \A k \in 0..(n(c) - 1) :
      k \notin wrote[c] => (Returned(c) /\ ret[c].vals[k] = 0)

(***************************************************************************)
(* C5: at the end of a smiles2affinity call, an index whose log is present *)
(* but unparseable has result 0, every index has a result, and the call    *)
(* has returned normally.                                                  *)
(***************************************************************************)
C5_ParseErrorContained ==
  \A c \in Calls : (Affinity(c) /\ Ended(c)) =>
    \A k \in DOMAIN seen[c] :
      (seen[c][k] # NoFile /\ Unparseable(SeenLog(c, k))) =>
        /\ Returned(c)
        /\ DOMAIN ret[c].vals = 0..(n(c) - 1)
        /\ ret[c].vals[k] = 0

(***************************************************************************)
(* C6 as claimed: the docking engine is invoked with a timeout of          *)
(* TIMEOUT * max(1, n) seconds, TIMEOUT = 30, for every input of n strings.*)
(***************************************************************************)
C6_TimeoutMaxOneN ==
  /\ TIMEOUT = 30
  /\ \A c \in Calls :
       timeout[c] >= 0 => timeout[c] = TIMEOUT * Max(1, len(smiles[c].list))

(***************************************************************************)
(* C6 as amended: the docking engine is invoked with a timeout of          *)
(* TIMEOUT * n seconds, TIMEOUT = 30, where a single string counts as      *)
(* n = 1; this is TIMEOUT * max(1, n) for n >= 1 and 0 for the empty       *)
(* sequence.                                                               *)
(***************************************************************************)
C6_TimeoutTimesN ==
  /\ TIMEOUT = 30
  /\ \A c \in Calls : timeout[c] >= 0 =>
       /\ len(smiles[c].list) >= 1 => timeout[c] = TIMEOUT * Max(1, len(smiles[c].list))
       /\ len(smiles[c].list) = 0 => timeout[c] = 0

\* the engine has been invoked for an empty sequence
C6_Witness ==
  \E c \in Calls :
    Affinity(c) /\ pc[c] = "parse" /\ ~smiles[c].single /\ n(c) = 0 /\ timeout[c] = 0

(***************************************************************************)
(* C7: a smiles2affinity call whose docking engine exceeded its timeout    *)
(* ends without an exception, with the parsed score at every index whose   *)
(* log was written and 0 at every other index.                             *)
(***************************************************************************)
C7_TimeoutNotFatal ==
  \A c \in Calls : (Affinity(c) /\ Ended(c) /\ timedOut[c]) =>
    /\ Returned(c)
    /\ \A k \in 0..(n(c) - 1) :
         ret[c].vals[k] = IF seen[c][k] # NoFile THEN LogRule(SeenLog(c, k)).val ELSE 0

(***************************************************************************)
(* C8: an oracle call that returns gives a scalar for a single string and  *)
(* for a sequence of n strings a sequence of n scores, the score at        *)
(* position i being that of input i (for smiles2affinity, of the log       *)
(* {i}.dlg it opened); for smiles2uplogp, oracle([s]) = [oracle(s)] for    *)
(* every string s.                                                         *)
(***************************************************************************)
\* the score of element k of the input of call c
ElementScore(c, k) ==
  IF fn[c] = "uplogp" THEN _smiles2uplogp(smiles[c].list[k])
  ELSE IF seen[c][k] = NoFile THEN 0
  ELSE LogRule(SeenLog(c, k)).val

C8_BatchShape ==
  /\ \A c \in Calls : Returned(c) =>
       /\ ret[c].shape = IF smiles[c].single THEN "scalar" ELSE "list"
       /\ DOMAIN ret[c].vals = 0..(n(c) - 1)
       /\ \A k \in 0..(n(c) - 1) : ret[c].vals[k] = ElementScore(c, k)
  /\ \A s \in Smiles :
       LET one == smiles2uplogp([single |-> TRUE, list |-> [k \in 0..0 |-> s]])
           lst == smiles2uplogp([single |-> FALSE, list |-> [k \in 0..0 |-> s]])
       IN  one.shape = "scalar" /\ lst.shape = "list" /\ lst.vals = one.vals

\* a batch of two has returned two different scores, each in its own slot
C8_Witness ==
  \E c \in Calls :
    /\ Affinity(c) /\ Returned(c) /\ n(c) = 2
    /\ seen[c][0] = NoFile /\ seen[c][1] # NoFile
    /\ ret[c].vals[0] = 0 /\ ret[c].vals[1] = -7

(***************************************************************************)
(* C9: for every index whose log file was present, the result of a         *)
(* smiles2affinity call that returns is 0 if the log holds the zero-pose   *)
(* sentinel anywhere, else the fourth field of the first line that holds   *)
(* the ranking marker, else 0 if no line holds the marker.                 *)
(***************************************************************************)
C9_LogParsingRule ==
  \A c \in Calls : (Affinity(c) /\ Returned(c)) =>
    \A k \in 0..(n(c) - 1) :
      seen[c][k] # NoFile => LogRule(SeenLog(c, k)) = Ok(ret[c].vals[k])

\* a call has returned a score taken from the first of two ranking lines
C9_Witness ==
  \E c \in Calls :
    /\ Affinity(c) /\ Returned(c) /\ n(c) >= 1
    /\ seen[c][0] # NoFile
    /\ Cardinality(MarkerLines(SeenLog(c, 0))) >= 2
    /\ ~HasZeroPose(SeenLog(c, 0))
    /\ ret[c].vals[0] = -3

(***************************************************************************)
(* C10: smiles2uplogp raises nothing and returns -100 for an unparseable   *)
(* string; in a batch every unparseable element has -100 in its own slot   *)
(* and every other element its own score.                                  *)
(***************************************************************************)
\* logP - SA - the number of rings of more than 6 atoms
FlatScore(s) ==
  LET mol == MolTable[s]
  IN  mol.logp - mol.sa - Cardinality({j \in 1..Len(mol.rings) : mol.rings[j] > 6})

C10_InvalidIsMinus100 ==
  \A c \in Calls : (fn[c] = "uplogp" /\ Ended(c)) =>
    /\ Returned(c)
    /\ DOMAIN ret[c].vals = DOMAIN smiles[c].list
    /\ \A k \in DOMAIN smiles[c].list :
         ret[c].vals[k] = IF MolTable[smiles[c].list[k]].valid
                          THEN FlatScore(smiles[c].list[k])
                          ELSE -100

\* a batch with an unparseable string before a parseable one
C10_Witness ==
  \E c \in Calls :
    /\ fn[c] = "uplogp" /\ Ended(c) /\ ~smiles[c].single /\ n(c) = 2
    /\ smiles[c].list[0] = "not a molecule" /\ ret[c].vals[0] = -100
    /\ smiles[c].list[1] = "C1CCCCCC1" /\ ret[c].vals[1] = 1

(***************************************************************************)
(* C11: for every parseable molecule smiles2uplogp returns logP - SA minus *)
(* one for each ring of more than 6 atoms, also where the                  *)
(* max-ring-length convention gives another value; a molecule whose only   *)
(* ring of more than 6 atoms is one 7-membered ring scores exactly 1 below *)
(* logP - SA.                                                              *)
(***************************************************************************)
BigRings(s) == {j \in 1..Len(MolTable[s].rings) : MolTable[s].rings[j] > 6}

Baseline(s) == MolTable[s].logp - MolTable[s].sa

\* the score under the max-ring-length-over-6 convention
MaxConvention(s) ==
  LET sizes == {MolTable[s].rings[j] : j \in 1..Len(MolTable[s].rings)}
      longest == IF sizes = {} THEN 0 ELSE CHOOSE m \in sizes : \A x \in sizes : x <= m
  IN  Baseline(s) - (IF longest > 6 THEN longest - 6 ELSE 0)

C11_FlatRingPenalty ==
  \A c \in Calls : (fn[c] = "uplogp" /\ Ended(c)) =>
    \A k \in DOMAIN smiles[c].list :
      LET s == smiles[c].list[k]
      IN  MolTable[s].valid =>
            /\ ret[c].vals[k] = Baseline(s) - Cardinality(BigRings(s))
            /\ (\E j \in BigRings(s) : BigRings(s) = {j} /\ MolTable[s].rings[j] = 7)
                 => ret[c].vals[k] = Baseline(s) - 1

\* scored: a molecule on which the two conventions differ, and one with a
\* single 7-membered ring
C11_Witness ==
  \E c \in Calls :
    /\ fn[c] = "uplogp" /\ Ended(c) /\ ~smiles[c].single /\ n(c) = 2
    /\ smiles[c].list[0] = "C1CCCCCC1C1CCCCCC1"
    /\ MaxConvention(smiles[c].list[0]) # ret[c].vals[0]
    /\ smiles[c].list[1] = "C1CCCCCC1"
    /\ ret[c].vals[1] = Baseline(smiles[c].list[1]) - 1

(***************************************************************************)
(* normalize(x, step_size, relative).  x is a 1-D tensor, given by its     *)
(* entries, or a plain Python float, which has no tensor attributes;       *)
(* step_size is None or a number.  The tensors of the catalogue have       *)
(* integer norms and the step sizes are multiples of them, so that         *)
(* x / norm * step_size is an integer; a zero tensor divides 0 by 0 and    *)
(* gives nan entries.                                                      *)
(***************************************************************************)
Tensor(v) == [kind |-> "tensor", vals |-> v, nan |-> FALSE]
PyFloat(x) == [kind |-> "float", vals |-> <<x>>, nan |-> FALSE]
NanTensor(v) == [kind |-> "tensor", vals |-> [k \in DOMAIN v |-> 0], nan |-> TRUE]
TypeError == [kind |-> "TypeError", vals |-> <<>>, nan |-> FALSE]

NoStep == [none |-> TRUE, val |-> 0]
Step(s) == [none |-> FALSE, val |-> s]

NormInputs ==
  {Tensor(<<3, 4>>), Tensor(<<6, 8>>), Tensor(<<0, 5>>), Tensor(<<0, 0>>),
   Tensor(<<10>>), PyFloat(2), PyFloat(0)}

StepSizes == {NoStep, Step(5), Step(10)}

RECURSIVE SumSq(_)
SumSq(v) == IF v = <<>> THEN 0 ELSE Head(v) * Head(v) + SumSq(Tail(v))

\* torch.norm(x, dim=-1, keepdim=True)
Norm(v) == CHOOSE r \in 0..SumSq(v) : r * r = SumSq(v)

\* x * step_size
Mul(x, s) == [x EXCEPT !.vals = [k \in DOMAIN x.vals |-> x.vals[k] * s]]

\* x / torch.norm(x, dim=-1, keepdim=True) * step_size
UnitScale(x, s) ==
  IF Norm(x.vals) = 0 THEN NanTensor(x.vals)
  ELSE Tensor([k \in DOMAIN x.vals |-> (x.vals[k] * s) \div Norm(x.vals)])

\* fault variant: the relative flag is tested before step_size
normalizeRelativeFirst(x, step_size, relative) ==
  IF relative THEN (IF step_size.none THEN TypeError ELSE Mul(x, step_size.val))
  ELSE IF step_size.none THEN x
  ELSE IF x.kind # "tensor" THEN x
  ELSE UnitScale(x, step_size.val)

normalize(x, step_size, relative) ==
  IF step_size.none THEN x
  ELSE IF relative THEN Mul(x, step_size.val)
  ELSE IF x.kind # "tensor" THEN x       \* except AttributeError: return x
  ELSE UnitScale(x, step_size.val)

CallNormalize ==
  /\ pure = NoCall
  /\ \E x \in NormInputs, step_size \in StepSizes, relative \in BOOLEAN :
       pure' = [fn |-> "normalize", x |-> x, step_size |-> step_size,
                relative |-> relative, out |-> normalize(x, step_size, relative)]
  /\ UNCHANGED <<pc, fn, smiles, run, i, results, seen, exc, ret, timeout,
                 timedOut, wrote, scan, unlinked, exists, files, stages>>

(***************************************************************************)
(* molssim(mol1, mol2).  A molecule is given by the set of its circular    *)
(* substructures (radius 2), numbered 0..MaxEnv; the Morgan generator      *)
(* folds each into one of FpSize bits.  TanimotoSimilarity is RDKit's: the *)
(* common on-bits over the on-bits of either, and 1.0 when neither vector  *)
(* has a bit set.  A similarity is kept as the fraction it is computed     *)
(* from.                                                                   *)
(***************************************************************************)
\* number of bits of a fingerprint; the program uses fpSize=2048
FpSize == 3
\* largest substructure number of a molecule
MaxEnv == 3

Mols == {[envs |-> S] : S \in SUBSET (0..MaxEnv)}

\* fpg.GetFingerprint(mol)
GetFingerprint(mol) == {e % FpSize : e \in mol.envs}

Ratio(a, b) == [num |-> a, den |-> b]

\* fault variant: the common bits over the bits of the first vector only
TanimotoOverFirst(fps1, fps2) ==
  LET x == Cardinality(fps1 \cap fps2)
      y == Cardinality(fps1)
  IN  IF y = 0 THEN Ratio(1, 1) ELSE Ratio(x, y)

\* fault variant: no special case for two vectors without a bit
TanimotoNoZeroCase(fps1, fps2) ==
  LET x == Cardinality(fps1 \cap fps2)
      y == Cardinality(fps1)
      z == Cardinality(fps2)
  IN  Ratio(x, y + z - x)

TanimotoSimilarity(fps1, fps2) ==
  LET x == Cardinality(fps1 \cap fps2)
      y == Cardinality(fps1)
      z == Cardinality(fps2)
  IN  IF y + z - x = 0 THEN Ratio(1, 1) ELSE Ratio(x, y + z - x)

molssim(mol1, mol2) ==
  LET fps1 == GetFingerprint(mol1)
      fps2 == GetFingerprint(mol2)
  IN  TanimotoSimilarity(fps1, fps2)

CallMolssim ==
  /\ pure = NoCall
  /\ \E mol1 \in Mols, mol2 \in Mols :
       pure' = [fn |-> "molssim", mol1 |-> mol1, mol2 |-> mol2,
                out |-> molssim(mol1, mol2)]
  /\ UNCHANGED <<pc, fn, smiles, run, i, results, seen, exc, ret, timeout,
                 timedOut, wrote, scan, unlinked, exists, files, stages>>

(***************************************************************************)
(* SpecPure: one call of a pure utility, over every input of the           *)
(* catalogues.                                                             *)
(***************************************************************************)
NextPure ==
  \/ CallNormalize
  \/ CallMolssim

SpecPure == Init /\ [][NextPure]_vars

(***************************************************************************)
(* C12: normalize returns its input unchanged whenever step_size is None,  *)
(* for every input and both values of relative.                            *)
(***************************************************************************)
C12_NormalizeNoStep ==
  (pure.fn = "normalize" /\ pure.step_size.none) => pure.out = pure.x

\* called without a step size and with relative set, on a non-zero tensor
C12_Witness ==
  /\ pure.fn = "normalize"
  /\ pure.step_size = NoStep /\ pure.relative
  /\ pure.x = Tensor(<<3, 4>>) /\ pure.out = Tensor(<<3, 4>>)

(***************************************************************************)
(* C13: molssim(a, b) = molssim(b, a) for all molecules a, b; the value is *)
(* the number of common bits over the number of bits set in either         *)
(* fingerprint and lies in [0, 1].                                         *)
(***************************************************************************)
C13_SimilaritySymmetric ==
  pure.fn = "molssim" =>
    LET a == GetFingerprint(pure.mol1)
        b == GetFingerprint(pure.mol2)
    IN  /\ pure.out = molssim(pure.mol2, pure.mol1)
        /\ pure.out.den > 0
        /\ 0 <= pure.out.num /\ pure.out.num <= pure.out.den
        /\ a \cup b # {} =>
             pure.out.num * Cardinality(a \cup b) = pure.out.den * Cardinality(a \cap b)

\* two molecules with different fingerprints that share a bit
C13_Witness ==
  /\ pure.fn = "molssim"
  /\ GetFingerprint(pure.mol1) # GetFingerprint(pure.mol2)
  /\ Cardinality(GetFingerprint(pure.mol1)) # Cardinality(GetFingerprint(pure.mol2))
  /\ pure.out.num = 1 /\ pure.out.den = 2

(***************************************************************************)
(* C14: molssim(a, a) = 1.0 for every molecule a, also for a molecule      *)
(* whose fingerprint has no bit set.                                       *)
(***************************************************************************)
C14_SimilarityReflexive ==
  (pure.fn = "molssim" /\ pure.mol1 = pure.mol2) =>
    (pure.out.den > 0 /\ pure.out.num = pure.out.den)

\* a molecule without a bit compared with itself
C14_Witness ==
  /\ pure.fn = "molssim"
  /\ pure.mol1 = pure.mol2
  /\ GetFingerprint(pure.mol1) = {}
  /\ pure.out = Ratio(1, 1)

(***************************************************************************)
(* SpecFair: Spec, where a call that has started keeps taking its steps.   *)
(* Each step of a started call is an operation that ends: the generation   *)
(* subprocess by the proviso of C17, the docking subprocess.run by itself  *)
(* or by its timeout, parsing and rmtree as local work.  Nothing obliges a *)
(* caller to start a call.                                                 *)
(***************************************************************************)
StepOf(c) ==
  \/ Gen(c)
  \/ Dock(c, SomeLogs)
  \/ Parse(c)
  \/ Return(c)
  \/ RmtreeScan(c)
  \/ RmtreeRemove(c)

SpecFair == Spec /\ \A c \in Calls : WF_vars(StepOf(c))

\* SpecOne with the same fairness for its one call
SpecOneFair == SpecOne /\ WF_vars(StepOf(1))

(***************************************************************************)
(* C15: every smiles2affinity call works in a fresh scratch directory, so  *)
(* that no .dlg file a call opens for a result was written by another      *)
(* call's docking engine.                                                  *)
(***************************************************************************)
C15_FreshScratch ==
  \A c \in Calls : Affinity(c) =>
    \A k \in DOMAIN seen[c] : seen[c][k] # NoFile => seen[c][k].by = c

(***************************************************************************)
(* C16: within one smiles2affinity call, structure generation runs for     *)
(* every index 0..n-1 in index order before the docking engine is invoked, *)
(* the engine is invoked exactly once, parsing starts only after the       *)
(* docking invocation is over, and the scratch directory is removed only   *)
(* after parsing has ended or an exception has been raised.                *)
(***************************************************************************)
At(c, op) == {k \in DOMAIN stages[c] : stages[c][k].op = op}

C16_StageOrder ==
  \A c \in Calls : Affinity(c) =>
    LET s == stages[c]
    IN  /\ \A k \in At(c, "gen") : s[k] = Stage("gen", k - 1)
        /\ \A d \in At(c, "dock") :
             /\ d = n(c) + 1
             /\ \A k \in 1..n(c) : s[k] = Stage("gen", k - 1)
        /\ Cardinality(At(c, "dock")) <= 1
        /\ pc[c] \in {"parse", "rmtree", "rmdir", "done"} => Cardinality(At(c, "dock")) = 1
        /\ \A p \in At(c, "parse") : \E d \in At(c, "dock") : d < p
        /\ \A r \in At(c, "rmtree") :
             /\ r = Len(s) /\ r > 1
             /\ r > 1 =>
                  \/ s[r - 1].op = "return"
                  \/ exc[c] # "none" /\ s[r - 1].op = "parse"
        /\ \A q \in At(c, "return") :
             /\ \A k \in 0..(n(c) - 1) : \E p \in At(c, "parse") : p < q /\ s[p].idx = k
             /\ exc[c] = "none"

\* a batch of two has run through all its stages
C16_Witness ==
  \E c \in Calls :
    /\ Affinity(c) /\ Ended(c) /\ n(c) = 2
    /\ stages[c] = <<Stage("gen", 0), Stage("gen", 1), Stage("dock", 0),
                     Stage("parse", 0), Stage("parse", 1), Stage("return", 0),
                     Stage("rmtree", 0)>>

(***************************************************************************)
(* C17: every smiles2affinity call that has started eventually ends, also  *)
(* when the docking engine never finishes by itself, and when it ends its  *)
(* scratch directory has been removed.                                     *)
(***************************************************************************)
\* the first half alone
C17_Terminates == \A c \in Calls : Started(c) ~> Ended(c)

C17_EndsAndCleans ==
  /\ \A c \in Calls : Started(c) ~> Ended(c)
  /\ [][\A c \in Calls :
          (Started(c) /\ ~Ended(c) /\ Ended(c)')
            => output_path(c) \notin exists']_vars

====
